---- MODULE Spec2Model ----
(***************************************************************************)
(* GovProcureChain: the hash-linked audit ledger of src/blockchain.py and  *)
(* the callers that drive it (src/app.py, src/dashboard.py).               *)
(*                                                                         *)
(* Conventions.                                                            *)
(*  - Python list positions are 0-based, TLA+ sequences 1-based: the block *)
(*    self.chain[i] is chain[i + 1] here; the field Block.index keeps the  *)
(*    Python value.                                                        *)
(*  - A timestamp is the clock reading it was taken at (1..MaxClock); the  *)
(*    empty string "" that Event.timestamp_utc defaults to is NoTimestamp. *)
(*  - canonical_json is modelled as the serialisation json.dumps produces, *)
(*    a sequence of tokens, with mapping keys sorted.                      *)
(*  - SHA-256 is idealised as collision free: a digest is the tagged       *)
(*    preimage, so two digests are equal iff their preimages are.          *)
(***************************************************************************)
EXTENDS Integers, Sequences, FiniteSets, TLC

VARIABLES
    chain,      \* Blockchain.chain: the list of Block objects
    clock,      \* the wall clock utc_now_iso() reads
    call,       \* the operation that produced this state, with its arguments
    ret,        \* what that operation returned
    tampers,    \* direct in-memory writes to stored blocks made so far
    pc,         \* per request handler: its position inside add_block
    req,        \* per request handler: number of add_block calls completed
    local,      \* per request handler: the locals of its add_block frame
    made        \* the Events a caller has constructed and not yet handed over

vars == <<chain, clock, call, ret, tampers, pc, req, local, made>>

----------------------------------------------------------------------------
(* Bounds of the model *)

MaxChain == 3       \* blocks in the chain, genesis included
MaxClock == 2       \* clock readings
MaxCalls == 2       \* add_block calls of one request that are followed
MaxMade == 2        \* Event objects a caller holds at once
MaxBids == 2        \* bids handed to choose_winner
MaxRequests == 2    \* /api/simulate requests served one after another

(* Program constants *)

HashHexLen == 64    \* "0" * 64
NoTimestamp == 0    \* timestamp_utc: str = ""

----------------------------------------------------------------------------
(* utc_now_iso: a reading of the clock.  Time passes between the steps of  *)
(* the program (Tick); a reading is the clock's value when it is taken.    *)
(* A call that runs to completion falls within one value of the clock; the *)
(* handlers of the dashboard read it statement by statement.               *)

utc_now_iso(now) == now

----------------------------------------------------------------------------
(* canonical_json: json.dumps(obj, sort_keys=True, separators=(",", ":")) *)

RECURSIVE Join(_)
Join(parts) ==
    IF Len(parts) = 0 THEN << >>
    ELSE IF Len(parts) = 1 THEN parts[1]
    ELSE parts[1] \o <<",">> \o Join(Tail(parts))

json_str(s) == <<"\"", s, "\"">>

\* The values of a payload (Dict[str, Any]): a string, a nested mapping, or
\* an object json.dumps has no encoding for (a set, a datetime, ...).  A
\* mapping is the sequence of its <<key, value>> items in insertion order.
Str(s) == [kind |-> "str", str |-> s, map |-> << >>]

Map(p) == [kind |-> "map", str |-> "", map |-> p]

NotJson == [kind |-> "object", str |-> "", map |-> << >>]

json_int(n) == <<ToString(n)>>

\* an ISO timestamp string; "" when the timestamp is unset
json_time(t) == IF t = NoTimestamp THEN <<"\"", "\"">> ELSE <<"\"", ToString(t), "\"">>

\* a hex digest, itself a string
json_hex(h) == <<"\"">> \o h \o <<"\"">>

\* the payload keys in use, in the order sort_keys puts them
SortedKeys ==
    <<"bid_id", "deliverable_id", "message", "solicitation_id", "title", "winning_vendor_id">>

PayloadKeys(p) == { p[i][1] : i \in 1..Len(p) }

PayloadGet(p, k) == (CHOOSE i \in 1..Len(p) : p[i][1] = k)

\* the items as the mapping happens to hold them, sort_keys left out
InsertionOrderItems(p, n) == p

RECURSIVE SortedItems(_, _)
SortedItems(p, n) ==
    IF n > Len(SortedKeys) THEN << >>
    ELSE IF SortedKeys[n] \in PayloadKeys(p)
         THEN << p[PayloadGet(p, SortedKeys[n])] >> \o SortedItems(p, n + 1)
         ELSE SortedItems(p, n + 1)

\* json.dumps of a mapping; a nested mapping is encoded the same way
RECURSIVE json_payload(_)
json_payload(p) ==
    LET items == SortedItems(p, 1)
        json_value(v) == IF v.kind = "map" THEN json_payload(v.map) ELSE json_str(v.str)
    IN  <<"{">> \o Join([i \in 1..Len(items) |->
                            json_str(items[i][1]) \o <<":">> \o json_value(items[i][2])])
        \o <<"}">>

\* json.dumps raises TypeError on a mapping holding an object it cannot encode
RECURSIVE json_raises(_)
json_raises(p) ==
    \E i \in 1..Len(p) :
        \/ p[i][2].kind = "object"
        \/ p[i][2].kind = "map" /\ json_raises(p[i][2].map)

\* an event dict: its five keys in sorted order
json_event(d) ==
    <<"{">>
    \o json_str("actor_id") \o <<":">> \o json_str(d.actor_id) \o <<",">>
    \o json_str("actor_role") \o <<":">> \o json_str(d.actor_role) \o <<",">>
    \o json_str("event_type") \o <<":">> \o json_str(d.event_type) \o <<",">>
    \o json_str("payload") \o <<":">> \o json_payload(d.payload) \o <<",">>
    \o json_str("timestamp_utc") \o <<":">> \o json_time(d.timestamp_utc)
    \o <<"}">>

json_events(evs) ==
    <<"[">> \o Join([i \in 1..Len(evs) |-> json_event(evs[i])]) \o <<"]">>

\* block_obj of compute_hash: its five keys in sorted order
canonical_json(obj) ==
    <<"{">>
    \o json_str("events") \o <<":">> \o json_events(obj.events) \o <<",">>
    \o json_str("index") \o <<":">> \o json_int(obj.index) \o <<",">>
    \o json_str("nonce") \o <<":">> \o json_int(obj.nonce) \o <<",">>
    \o json_str("previous_hash") \o <<":">> \o json_hex(obj.previous_hash) \o <<",">>
    \o json_str("timestamp_utc") \o <<":">> \o json_time(obj.timestamp_utc)
    \o <<"}">>

sha256_hex(data) == <<"sha256">> \o data

ZeroHash == [i \in 1..HashHexLen |-> "0"]

----------------------------------------------------------------------------
(* Event and Block *)

\* Event.to_dict: the fields, and a clock reading where the timestamp is unset
to_dict(e, now) ==
    [event_type |-> e.event_type, actor_role |-> e.actor_role,
     actor_id |-> e.actor_id, payload |-> e.payload,
     timestamp_utc |-> IF e.timestamp_utc = NoTimestamp
                       THEN utc_now_iso(now) ELSE e.timestamp_utc]

\* the exception json.dumps raises
TypeError == "TypeError"

\* Block.compute_hash raises when canonical_json does: some event of the
\* block holds a payload json.dumps cannot encode
compute_hash_raises(b) == \E j \in 1..Len(b.events) : json_raises(b.events[j].payload)

\* compute_hash taking the stored hash into the hashed object
compute_hash_of_all_fields(b) ==
    sha256_hex(canonical_json(
        [index |-> b.index, timestamp_utc |-> b.timestamp_utc,
         previous_hash |-> b.previous_hash, events |-> b.events,
         nonce |-> b.nonce]) \o json_hex(b.hash))

\* Block.compute_hash: every field except hash
compute_hash(b) ==
    sha256_hex(canonical_json(
        [index |-> b.index, timestamp_utc |-> b.timestamp_utc,
         previous_hash |-> b.previous_hash, events |-> b.events,
         nonce |-> b.nonce]))

Block(index, timestamp_utc, previous_hash, events, nonce) ==
    [index |-> index, timestamp_utc |-> timestamp_utc,
     previous_hash |-> previous_hash, events |-> events,
     nonce |-> nonce, hash |-> << >>]

\* block.hash = block.compute_hash()
Sealed(b) == [b EXCEPT !.hash = compute_hash(b)]

----------------------------------------------------------------------------
(* The inputs: the Events callers build and the batches they hand over *)

SolicitationPublished ==
    [event_type |-> "SOLICITATION_PUBLISHED", actor_role |-> "CONTRACTING_OFFICER",
     actor_id |-> "CO_001",
     payload |-> << <<"solicitation_id", Str("SOL-DEMO-001")>> >>,
     timestamp_utc |-> NoTimestamp]

BidSubmitted(vendor_id, bid_id) ==
    [event_type |-> "BID_SUBMITTED", actor_role |-> "VENDOR",
     actor_id |-> vendor_id,
     payload |-> << <<"bid_id", Str(bid_id)>> >>,
     timestamp_utc |-> NoTimestamp]

BidEvents ==
    << BidSubmitted("VENDOR_ALPHA", "BID-ALPHA-001"),
       BidSubmitted("VENDOR_BETA", "BID-BETA-001") >>

\* the batches handed to add_block: none, one event, several events
Batches == { << >>, << SolicitationPublished >>, BidEvents }

----------------------------------------------------------------------------
(* Blockchain *)

\* a genesis block whose hash is never assigned
create_genesis_block_unsealed(c, now) ==
    Append(c, Block(0, utc_now_iso(now), ZeroHash,
                    << [event_type |-> "GENESIS", actor_role |-> "SYSTEM",
                        actor_id |-> "GOVPROCURECHAIN",
                        payload |-> << <<"message", Str("Genesis block - chain initialized")>> >>,
                        timestamp_utc |-> utc_now_iso(now)] >>,
                    0))

\* _create_genesis_block, run with the clock at now
create_genesis_block(c, now) ==
    LET genesis ==
            Block(0, utc_now_iso(now), ZeroHash,
                  << [event_type |-> "GENESIS", actor_role |-> "SYSTEM",
                      actor_id |-> "GOVPROCURECHAIN",
                      payload |-> << <<"message", Str("Genesis block - chain initialized")>> >>,
                      timestamp_utc |-> utc_now_iso(now)] >>,
                  0)
    IN  Append(c, Sealed(genesis))

\* add_block linking to the first block instead of the tip
add_block_stale_tip(c, events, now) ==
    LET event_dicts == [j \in 1..Len(events) |-> to_dict(events[j], now)]
        block == Sealed(Block(Len(c), utc_now_iso(now), c[1].hash, event_dicts, 0))
    IN  [chain |-> Append(c, block), ret |-> block]

\* add_block hashing the block before its events are attached
add_block_hash_early(c, events, now) ==
    LET event_dicts == [j \in 1..Len(events) |-> to_dict(events[j], now)]
        empty == Sealed(Block(Len(c), utc_now_iso(now), c[Len(c)].hash, << >>, 0))
        block == [empty EXCEPT !.events = event_dicts]
    IN  [chain |-> Append(c, block), ret |-> block]

\* add_block numbering the new block after the tip's index, off by one
add_block_index_of_tip(c, events, now) ==
    LET event_dicts == [j \in 1..Len(events) |-> to_dict(events[j], now)]
        block == Sealed(Block(Len(c) - 1, utc_now_iso(now), c[Len(c)].hash,
                              event_dicts, 0))
    IN  [chain |-> Append(c, block), ret |-> block]

\* add_block replacing the tip instead of growing the list
add_block_over_tip(c, events, now) ==
    LET event_dicts == [j \in 1..Len(events) |-> to_dict(events[j], now)]
        block == Sealed(Block(Len(c), utc_now_iso(now), c[Len(c)].hash,
                              event_dicts, 0))
    IN  [chain |-> IF Len(c) > 1 THEN [c EXCEPT ![Len(c)] = block] ELSE Append(c, block),
         ret |-> block]

\* add_block appending the block before hashing it
add_block_append_first(c, events, now) ==
    LET prev == c[Len(c)]
        event_dicts == [j \in 1..Len(events) |-> to_dict(events[j], now)]
        block == Block(Len(c), utc_now_iso(now), prev.hash, event_dicts, 0)
    IN  IF compute_hash_raises(block)
        THEN [chain |-> Append(c, block), ret |-> TypeError, raised |-> TRUE]
        ELSE [chain |-> Append(c, Sealed(block)), ret |-> Sealed(block), raised |-> FALSE]

\* add_block storing the events last to first
add_block_reversed(c, events, now) ==
    LET prev == c[Len(c)]
        event_dicts == [j \in 1..Len(events) |-> to_dict(events[Len(events) + 1 - j], now)]
        block == Block(Len(c), utc_now_iso(now), prev.hash, event_dicts, 0)
    IN  IF compute_hash_raises(block)
        THEN [chain |-> c, ret |-> TypeError, raised |-> TRUE]
        ELSE [chain |-> Append(c, Sealed(block)), ret |-> Sealed(block), raised |-> FALSE]

\* add_block, run to completion with the clock at now: the chain afterwards
\* and the block returned
add_block(c, events, now) ==
    LET prev == c[Len(c)]
        event_dicts == [j \in 1..Len(events) |-> to_dict(events[j], now)]
        block == Block(Len(c), utc_now_iso(now), prev.hash, event_dicts, 0)
    IN  IF compute_hash_raises(block)
        THEN [chain |-> c, ret |-> TypeError, raised |-> TRUE]
        ELSE [chain |-> Append(c, Sealed(block)), ret |-> Sealed(block), raised |-> FALSE]

\* is_valid checking the links only, recomputing nothing
RECURSIVE is_valid_loop_links_only(_, _)
is_valid_loop_links_only(c, i) ==
    IF i > Len(c) - 1 THEN [result |-> TRUE, i |-> i, raised |-> FALSE]
    ELSE IF c[i + 1].previous_hash # c[i].hash
         THEN [result |-> FALSE, i |-> i, raised |-> FALSE]
         ELSE is_valid_loop_links_only(c, i + 1)

\* is_valid recomputing the hashes only, following no link
RECURSIVE is_valid_loop_hashes_only(_, _)
is_valid_loop_hashes_only(c, i) ==
    IF i > Len(c) - 1 THEN [result |-> TRUE, i |-> i, raised |-> FALSE]
    ELSE IF compute_hash_raises(c[i + 1])
         THEN [result |-> FALSE, i |-> i, raised |-> TRUE]
         ELSE IF c[i + 1].hash # compute_hash(c[i + 1])
         THEN [result |-> FALSE, i |-> i, raised |-> FALSE]
         ELSE is_valid_loop_hashes_only(c, i + 1)

\* is_valid: the loop from position i on; the result and the position the
\* loop stood at when it returned, or that compute_hash raised there (no
\* result then)
RECURSIVE is_valid_loop(_, _)
is_valid_loop(c, i) ==
    IF i > Len(c) - 1 THEN [result |-> TRUE, i |-> i, raised |-> FALSE]
    ELSE LET cur == c[i + 1]
             prev == c[i]
         IN  IF cur.previous_hash # prev.hash
             THEN [result |-> FALSE, i |-> i, raised |-> FALSE]
             ELSE IF compute_hash_raises(cur)
             THEN [result |-> FALSE, i |-> i, raised |-> TRUE]
             ELSE IF cur.hash # compute_hash(cur)
             THEN [result |-> FALSE, i |-> i, raised |-> FALSE]
             ELSE is_valid_loop(c, i + 1)

is_valid(c) == is_valid_loop(c, 1).result

\* what a caller of is_valid gets: the boolean, or the exception
is_valid_outcome(c) ==
    IF is_valid_loop(c, 1).raised THEN TypeError ELSE is_valid_loop(c, 1).result

\* display: the blocks it prints
display(c, max_blocks) ==
    IF max_blocks.none THEN c
    ELSE SubSeq(c, 1, IF max_blocks.n < Len(c) THEN max_blocks.n ELSE Len(c))

\* the values of display's max_blocks: None, or a count
MaxBlocksArgs ==
    {[none |-> TRUE, n |-> 0]} \cup {[none |-> FALSE, n |-> k] : k \in 0..MaxChain}

----------------------------------------------------------------------------
(* Handlers of the serving process *)

Handlers == {"h1", "h2"}

\* the locals of an add_block frame; prev is the position of the Block
\* object the frame holds a reference to
NoFrame == [events |-> << >>, prev |-> 0, event_dicts |-> << >>, block |-> << >>]

BiddingClosed ==
    [event_type |-> "BIDDING_CLOSED", actor_role |-> "CONTRACTING_OFFICER",
     actor_id |-> "CO_001",
     payload |-> << <<"solicitation_id", Str("SOL-DEMO-001")>> >>,
     timestamp_utc |-> NoTimestamp]

EvaluationRecorded(bid_id) ==
    [event_type |-> "EVALUATION_RECORDED", actor_role |-> "AI_RISK_ENGINE",
     actor_id |-> "RULES_V1",
     payload |-> << <<"bid_id", Str(bid_id)>> >>,
     timestamp_utc |-> NoTimestamp]

AwardIssued ==
    [event_type |-> "AWARD_ISSUED", actor_role |-> "CONTRACTING_OFFICER",
     actor_id |-> "CO_001",
     payload |-> << <<"winning_vendor_id", Str("VENDOR_BETA")>> >>,
     timestamp_utc |-> NoTimestamp]

\* simulate_procurement: the batches of its add_block calls, in order, each
\* payload cut down to its identifying key
SimulateScript ==
    << << SolicitationPublished >>,
       BidEvents,
       << BiddingClosed >>,
       << EvaluationRecorded("BID-ALPHA-001"), EvaluationRecorded("BID-BETA-001") >>,
       << AwardIssued >> >>

----------------------------------------------------------------------------
(* The state after construction: chain = Blockchain() *)

Init ==
    /\ clock \in 1..MaxClock
    /\ chain = create_genesis_block(<< >>, clock)
    /\ call = [op |-> "init"]
    /\ ret = "None"
    /\ tampers = << >>
    /\ pc = [h \in Handlers |-> "idle"]
    /\ req = [h \in Handlers |-> 0]
    /\ local = [h \in Handlers |-> NoFrame]
    /\ made = << >>

(* Sequential calls on the ledger, each running to completion *)

AddBlock ==
    /\ Len(chain) < MaxChain
    /\ \E events \in Batches :
         LET res == add_block(chain, events, clock)
         IN  /\ chain' = res.chain
             /\ ret' = res.ret
             /\ call' = [op |-> "add_block", events |-> events]
    /\ UNCHANGED <<clock, tampers, pc, req, local, made>>

\* is_valid writing the recomputed hash back into each block it visits
IsValidRepairing ==
    /\ ret' = is_valid_outcome(chain)
    /\ chain' = [k \in 1..Len(chain) |-> IF k = 1 THEN chain[k] ELSE Sealed(chain[k])]
    /\ call' = [op |-> "is_valid"]
    /\ UNCHANGED <<clock, tampers, pc, req, local, made>>

IsValid ==
    /\ ret' = is_valid_outcome(chain)
    /\ call' = [op |-> "is_valid"]
    /\ UNCHANGED <<chain, clock, tampers, pc, req, local, made>>

\* display prints the blocks display(chain, max_blocks) and returns None
Display ==
    /\ \E max_blocks \in MaxBlocksArgs :
          /\ Len(display(chain, max_blocks)) <= Len(chain)
          /\ ret' = "None"
          /\ call' = [op |-> "display"]
    /\ UNCHANGED <<chain, clock, tampers, pc, req, local, made>>

\* time passes
Tick ==
    /\ clock < MaxClock
    /\ clock' = clock + 1
    /\ call' = [op |-> "tick"]
    /\ UNCHANGED <<chain, ret, tampers, pc, req, local, made>>

Next == AddBlock \/ IsValid \/ Display \/ Tick

Spec == Init /\ [][Next]_vars

----------------------------------------------------------------------------
(* Tampering: a party with access to the process memory overwrites one     *)
(* field of one stored block (chain.chain[i].field = value), recomputing   *)
(* nothing.  Block is a plain mutable dataclass and events a plain list.   *)

ForgedPayload == << <<"solicitation_id", Str("SOL-FORGED")>> >>

ForgedEvent ==
    [event_type |-> "AWARD_ISSUED", actor_role |-> "CONTRACTING_OFFICER",
     actor_id |-> "CO_001", payload |-> ForgedPayload, timestamp_utc |-> 1]

BlockFields == {"index", "timestamp_utc", "previous_hash", "events", "nonce", "hash"}

\* the values a field of block b may be overwritten with, each unlike its
\* present value
TamperValues(b, field) ==
    CASE field = "index" -> {b.index + 1}
      [] field = "timestamp_utc" -> (1..MaxClock) \ {b.timestamp_utc}
      [] field = "nonce" -> {b.nonce + 1}
      [] field = "previous_hash" -> {ZeroHash, b.hash} \ {b.previous_hash}
      [] field = "hash" -> {ZeroHash, b.previous_hash} \ {b.hash}
      [] field = "events" ->
            { [b.events EXCEPT ![j].payload = ForgedPayload] : j \in 1..Len(b.events) }
            \cup { SubSeq(b.events, 1, Len(b.events) - 1) : j \in 1..Len(b.events) }
            \cup { Append(b.events, ForgedEvent) }

Overwrite(c, k, field, v) ==
    CASE field = "index" -> [c EXCEPT ![k].index = v]
      [] field = "timestamp_utc" -> [c EXCEPT ![k].timestamp_utc = v]
      [] field = "nonce" -> [c EXCEPT ![k].nonce = v]
      [] field = "previous_hash" -> [c EXCEPT ![k].previous_hash = v]
      [] field = "hash" -> [c EXCEPT ![k].hash = v]
      [] field = "events" -> [c EXCEPT ![k].events = v]

Tamper ==
    /\ tampers = << >>
    /\ \E k \in 1..Len(chain) : \E field \in BlockFields :
         \E v \in TamperValues(chain[k], field) :
            /\ chain' = Overwrite(chain, k, field, v)
            /\ tampers' = Append(tampers, [i |-> k - 1, field |-> field])
            /\ call' = [op |-> "tamper"]
            /\ ret' = "None"
    /\ UNCHANGED <<clock, pc, req, local, made>>

NextTamper == AddBlock \/ IsValid \/ Display \/ Tick \/ Tamper

SpecTamper == Init /\ [][NextTamper]_vars

----------------------------------------------------------------------------
(* The dashboard: request handlers of the serving process run              *)
(* simulate_procurement on the one global chain, and nothing orders the    *)
(* statements of one handler's add_block against another's.                *)

\* line 99-100: prev = self.chain[-1]; event_dicts = [e.to_dict() ...]
ReadTip(h) ==
    /\ pc[h] = "idle"
    /\ req[h] < MaxCalls
    /\ req[h] < Len(SimulateScript)
    /\ LET events == SimulateScript[req[h] + 1]
       IN  local' = [local EXCEPT ![h] =
                [events |-> events, prev |-> Len(chain),
                 event_dicts |-> [j \in 1..Len(events) |-> to_dict(events[j], clock)],
                 block |-> << >>]]
    /\ pc' = [pc EXCEPT ![h] = "build"]
    /\ UNCHANGED <<chain, clock, call, ret, tampers, req, made>>

\* the frame appending its Block before line 108 has given it a hash
BuildBlockUnhashed(h) ==
    /\ pc[h] = "build"
    /\ local' = [local EXCEPT ![h].block =
            Block(Len(chain), utc_now_iso(clock), chain[local[h].prev].hash,
                  local[h].event_dicts, 0)]
    /\ pc' = [pc EXCEPT ![h] = "append"]
    /\ UNCHANGED <<chain, clock, call, ret, tampers, req, made>>

\* line 101-108: block = Block(index=len(self.chain), ...); block.hash = ...
BuildBlock(h) ==
    /\ pc[h] = "build"
    /\ local' = [local EXCEPT ![h].block =
            Sealed(Block(Len(chain), utc_now_iso(clock), chain[local[h].prev].hash,
                         local[h].event_dicts, 0))]
    /\ pc' = [pc EXCEPT ![h] = "append"]
    /\ UNCHANGED <<chain, clock, call, ret, tampers, req, made>>

\* line 109-110: self.chain.append(block); return block
AppendBlock(h) ==
    /\ pc[h] = "append"
    /\ chain' = Append(chain, local[h].block)
    /\ ret' = local[h].block
    /\ call' = [op |-> "add_block", events |-> local[h].events]
    /\ pc' = [pc EXCEPT ![h] = "idle"]
    /\ req' = [req EXCEPT ![h] = req[h] + 1]
    /\ local' = [local EXCEPT ![h] = NoFrame]
    /\ UNCHANGED <<clock, tampers, made>>

NextConc ==
    \/ \E h \in Handlers : ReadTip(h)
    \/ \E h \in Handlers : BuildBlock(h)
    \/ \E h \in Handlers : AppendBlock(h)
    \/ Tick

SpecConc == Init /\ [][NextConc]_vars

----------------------------------------------------------------------------
(* Events from construction to the ledger: a caller constructs Events      *)
(* without a timestamp, may convert them, and later appends them. Each     *)
(* entry of made keeps the Event, the clock value at its construction and  *)
(* the result of its first conversion.                                     *)

MadeEvents == { SolicitationPublished, BidSubmitted("VENDOR_ALPHA", "BID-A") }

MakeEvent ==
    /\ Len(made) < MaxMade
    /\ \E e \in MadeEvents :
          made' = Append(made, [event |-> e, at |-> clock, first |-> << >>])
    /\ call' = [op |-> "Event"]
    /\ ret' = "None"
    /\ UNCHANGED <<chain, clock, tampers, pc, req, local>>

ToDict ==
    /\ \E k \in 1..Len(made) :
          LET d == to_dict(made[k].event, clock)
          IN  /\ ret' = d
              /\ call' = [op |-> "to_dict", k |-> k]
              /\ made' = [made EXCEPT ![k].first = IF @ = << >> THEN << d >> ELSE @]
    /\ UNCHANGED <<chain, clock, tampers, pc, req, local>>

AddMade ==
    /\ Len(chain) < MaxChain
    /\ made # << >>
    /\ LET events == [k \in 1..Len(made) |-> made[k].event]
           res == add_block(chain, events, clock)
       IN  /\ chain' = res.chain
           /\ ret' = res.ret
           /\ call' = [op |-> "add_block", events |-> events]
    /\ UNCHANGED <<clock, tampers, pc, req, local, made>>

NextEvent == MakeEvent \/ ToDict \/ AddMade \/ Tick

SpecEvent == Init /\ [][NextEvent]_vars

----------------------------------------------------------------------------
(* Payloads json.dumps cannot encode: handed to add_block, or written over *)
(* the payload of a stored event.                                          *)

UnencodablePayload == << <<"message", NotJson>> >>

NestedUnencodablePayload ==
    << <<"title", Str("Helpdesk")>>, <<"message", Map(<< <<"bid_id", NotJson>> >>)>> >>

UnencodableEvent(p) ==
    [event_type |-> "BID_SUBMITTED", actor_role |-> "VENDOR", actor_id |-> "VENDOR_ALPHA",
     payload |-> p, timestamp_utc |-> NoTimestamp]

UnencodableBatches ==
    { << UnencodableEvent(UnencodablePayload) >>,
      << SolicitationPublished, UnencodableEvent(NestedUnencodablePayload) >> }

AddUnencodable ==
    /\ Len(chain) < MaxChain
    /\ \E events \in UnencodableBatches :
         LET res == add_block(chain, events, clock)
         IN  /\ chain' = res.chain
             /\ ret' = res.ret
             /\ call' = [op |-> "add_block", events |-> events]
    /\ UNCHANGED <<clock, tampers, pc, req, local, made>>

TamperPayload ==
    /\ tampers = << >>
    /\ \E k \in 1..Len(chain) : \E j \in 1..Len(chain[k].events) :
         /\ chain' = [chain EXCEPT ![k].events[j].payload = UnencodablePayload]
         /\ tampers' = Append(tampers, [i |-> k - 1, field |-> "events"])
         /\ call' = [op |-> "tamper"]
         /\ ret' = "None"
    /\ UNCHANGED <<clock, pc, req, local, made>>

NextEncoding == AddBlock \/ AddUnencodable \/ IsValid \/ TamperPayload \/ Tick

SpecEncoding == Init /\ [][NextEncoding]_vars

----------------------------------------------------------------------------
(* The rule engine of ai_rules.py. Prices are whole numbers; the median is *)
(* carried as twice its value, so that the two price comparisons           *)
(*     price < 0.7 * m        price > 1.5 * m                               *)
(* are comparisons of integers; the prices drawn never sit on either       *)
(* threshold.                                                              *)

\* list.sort / sorted on numbers
RECURSIVE sorted(_)
sorted(s) ==
    IF s = << >> THEN << >>
    ELSE LET rest == sorted(Tail(s))
             below == SelectSeq(rest, LAMBDA y : y < Head(s))
             above == SelectSeq(rest, LAMBDA y : y >= Head(s))
         IN  below \o << Head(s) >> \o above

\* statistics.median, doubled: the middle value, or the mean of the two
\* middle values
median2(prices) ==
    LET s == sorted(prices)
        n == Len(s)
    IN  IF n % 2 = 1 THEN 2 * s[(n + 1) \div 2]
        ELSE s[n \div 2] + s[n \div 2 + 1]

Hit(reason, risk, fail) == << [reason |-> reason, risk |-> risk, fail |-> fail] >>

\* the hard gates on solicitation_id, SAM registration and insurance
gate_hits(solicitation, bid, vendor) ==
    (IF bid.solicitation_id # solicitation.solicitation_id
     THEN Hit("Bid does not match solicitation_id.", 60, TRUE) ELSE << >>)
    \o (IF ~vendor.sam_registered
        THEN Hit("Vendor is NOT SAM-registered.", 50, TRUE) ELSE << >>)
    \o (IF ~vendor.insurance_valid
        THEN Hit("Vendor insurance is NOT valid.", 40, TRUE) ELSE << >>)

\* the NAICS rule made a gate that fails the bid
naics_hit_failing(solicitation, vendor) ==
    IF \A i \in 1..Len(vendor.naics_codes) : vendor.naics_codes[i] # solicitation.naics
    THEN Hit("Vendor NAICS codes do not include solicitation NAICS.", 20, TRUE)
    ELSE << >>

\* the NAICS rule: a risk signal that does not fail the bid
naics_hit(solicitation, vendor) ==
    IF \A i \in 1..Len(vendor.naics_codes) : vendor.naics_codes[i] # solicitation.naics
    THEN Hit("Vendor NAICS codes do not include solicitation NAICS.", 20, FALSE)
    ELSE << >>

technical_hit(bid) ==
    IF ~bid.technical_compliance
    THEN Hit("Bid marked technically non-compliant (fails requirements).", 50, TRUE)
    ELSE << >>

performance_hit(vendor) ==
    IF vendor.past_performance_score < 60
    THEN Hit("Low past performance score (<60).", 25, FALSE)
    ELSE IF vendor.past_performance_score < 75
    THEN Hit("Moderate past performance score (60-74).", 10, FALSE)
    ELSE << >>

delivery_hit(bid) ==
    IF bid.delivery_days <= 3
    THEN Hit("Very aggressive delivery timeline (<=3 days).", 15, FALSE)
    ELSE IF bid.delivery_days > 60
    THEN Hit("Very long delivery timeline (>60 days).", 10, FALSE)
    ELSE << >>

price_hit(bid, peer_prices) ==
    IF peer_prices = << >> THEN << >>
    ELSE IF 20 * bid.price_total < 7 * median2(peer_prices)
    THEN Hit("Price is unusually low (<70% of median).", 20, FALSE)
    ELSE IF 4 * bid.price_total > 3 * median2(peer_prices)
    THEN Hit("Price is unusually high (>150% of median).", 10, FALSE)
    ELSE << >>

\* the rules that fired, in the order the code tests them
rule_hits(solicitation, bid, vendor, peer_prices) ==
    gate_hits(solicitation, bid, vendor) \o naics_hit(solicitation, vendor)
    \o technical_hit(bid) \o performance_hit(vendor) \o delivery_hit(bid)
    \o price_hit(bid, peer_prices)

RECURSIVE risk_sum(_)
risk_sum(hits) == IF hits = << >> THEN 0 ELSE Head(hits).risk + risk_sum(Tail(hits))

min(a, b) == IF a <= b THEN a ELSE b

max(a, b) == IF a >= b THEN a ELSE b

\* evaluate_bid_rules returning the sum of the penalties as it is
evaluate_bid_rules_unclamped(solicitation, bid, vendor, peer_prices) ==
    LET hits == rule_hits(solicitation, bid, vendor, peer_prices)
    IN  [compliance_pass |-> \A i \in 1..Len(hits) : ~hits[i].fail,
         risk_score |-> risk_sum(hits),
         reasons |-> [i \in 1..Len(hits) |-> hits[i].reason]]

evaluate_bid_rules(solicitation, bid, vendor, peer_prices) ==
    LET hits == rule_hits(solicitation, bid, vendor, peer_prices)
    IN  [compliance_pass |-> \A i \in 1..Len(hits) : ~hits[i].fail,
         risk_score |-> max(0, min(100, risk_sum(hits))),
         reasons |-> [i \in 1..Len(hits) |-> hits[i].reason]]

\* list.sort(key=price_total) on (bid, result) pairs: stable
RECURSIVE sorted_by_price(_)
sorted_by_price(s) ==
    IF s = << >> THEN << >>
    ELSE LET rest == sorted_by_price(Tail(s))
             below == SelectSeq(rest, LAMBDA y : y[1].price_total < Head(s)[1].price_total)
             above == SelectSeq(rest, LAMBDA y : y[1].price_total >= Head(s)[1].price_total)
         IN  below \o << Head(s) >> \o above

ValueError == "ValueError"

\* choose_winner taking the cheapest of all the scored bids
choose_winner_of_all(solicitation, bids, vendors_by_id) ==
    LET peer_prices == [i \in 1..Len(bids) |-> bids[i].price_total]
        scored == [i \in 1..Len(bids) |->
                     << bids[i], evaluate_bid_rules(solicitation, bids[i],
                                                    vendors_by_id[bids[i].vendor_id],
                                                    peer_prices) >>]
    IN  IF scored = << >>
        THEN [raised |-> TRUE, error |-> ValueError]
        ELSE [raised |-> FALSE, bid |-> sorted_by_price(scored)[1][1],
              res |-> sorted_by_price(scored)[1][2]]

\* choose_winner: the (bid, result) pair returned, or the exception raised
choose_winner(solicitation, bids, vendors_by_id) ==
    LET peer_prices == [i \in 1..Len(bids) |-> bids[i].price_total]
        scored == [i \in 1..Len(bids) |->
                     << bids[i], evaluate_bid_rules(solicitation, bids[i],
                                                    vendors_by_id[bids[i].vendor_id],
                                                    peer_prices) >>]
        compliant == SelectSeq(scored, LAMBDA x : x[2].compliance_pass)
    IN  IF compliant = << >>
        THEN [raised |-> TRUE, error |-> ValueError]
        ELSE [raised |-> FALSE, bid |-> sorted_by_price(compliant)[1][1],
              res |-> sorted_by_price(compliant)[1][2]]

(* Inputs of the rule engine *)

TheSolicitation == [solicitation_id |-> "SOL-2025-001", naics |-> "541519"]

Prices == {50, 100, 200}

DeliveryDays == {3, 14, 61}

PerformanceScores == {55, 70, 82}

NaicsLists == { << "541519", "541511" >>, << "999999" >> }

PeerPriceLists == { << >>, << 100 >>, << 200, 50 >> }

RuleVendors ==
    { [vendor_id |-> "VENDOR_ACME", sam_registered |-> s, insurance_valid |-> ins,
       naics_codes |-> nc, past_performance_score |-> ps] :
        s \in BOOLEAN, ins \in BOOLEAN, nc \in NaicsLists, ps \in PerformanceScores }

RuleBids ==
    { [bid_id |-> "BID-001", solicitation_id |-> sid, vendor_id |-> "VENDOR_ACME",
       price_total |-> p, delivery_days |-> d, technical_compliance |-> t] :
        sid \in {"SOL-2025-001", "SOL-2024-999"}, p \in Prices, d \in DeliveryDays,
        t \in BOOLEAN }

\* the vendors of app.py, and one whose insurance has lapsed
VendorsById ==
    [v \in {"VENDOR_ACME", "VENDOR_BUDGET", "VENDOR_FAST", "VENDOR_LAPSED"} |->
        [vendor_id |-> v,
         sam_registered |-> v # "VENDOR_BUDGET",
         insurance_valid |-> v # "VENDOR_LAPSED",
         naics_codes |-> IF v = "VENDOR_FAST" THEN << "541511" >>
                         ELSE IF v = "VENDOR_BUDGET" THEN << "541519" >>
                         ELSE << "541519", "541511" >>,
         past_performance_score |-> IF v = "VENDOR_ACME" THEN 82
                                    ELSE IF v = "VENDOR_FAST" THEN 55 ELSE 70]]

WinnerBids ==
    { [bid_id |-> "BID", solicitation_id |-> "SOL-2025-001", vendor_id |-> v,
       price_total |-> p, delivery_days |-> 14, technical_compliance |-> t] :
        v \in DOMAIN VendorsById, p \in Prices, t \in BOOLEAN }

RECURSIVE BidLists(_)
BidLists(n) ==
    IF n = 0 THEN { << >> }
    ELSE BidLists(n - 1)
         \cup { Append(l, b) : l \in { x \in BidLists(n - 1) : Len(x) = n - 1 }, b \in WinnerBids }

\* the arguments are built first, then the function is called
InitRules ==
    /\ clock = 1
    /\ chain = create_genesis_block(<< >>, clock)
    /\ \/ \E b \in RuleBids : \E v \in RuleVendors : \E pp \in PeerPriceLists :
             call = [op |-> "rules_args", solicitation |-> TheSolicitation, bid |-> b,
                     vendor |-> v, peer_prices |-> pp]
       \/ \E bs \in BidLists(MaxBids) :
             call = [op |-> "winner_args", solicitation |-> TheSolicitation, bids |-> bs,
                     vendors_by_id |-> VendorsById]
    /\ ret = "None"
    /\ tampers = << >>
    /\ pc = [h \in Handlers |-> "idle"]
    /\ req = [h \in Handlers |-> 0]
    /\ local = [h \in Handlers |-> NoFrame]
    /\ made = << >>

EvaluateBidRules ==
    /\ call.op = "rules_args"
    /\ call' = [call EXCEPT !.op = "evaluate_bid_rules"]
    /\ ret' = evaluate_bid_rules(call.solicitation, call.bid, call.vendor, call.peer_prices)
    /\ UNCHANGED <<chain, clock, tampers, pc, req, local, made>>

ChooseWinner ==
    /\ call.op = "winner_args"
    /\ call' = [call EXCEPT !.op = "choose_winner"]
    /\ ret' = choose_winner(call.solicitation, call.bids, call.vendors_by_id)
    /\ UNCHANGED <<chain, clock, tampers, pc, req, local, made>>

NextRules == EvaluateBidRules \/ ChooseWinner

SpecRules == InitRules /\ [][NextRules]_vars

----------------------------------------------------------------------------
(* The drivers: app.main on a chain of its own, and the dashboard serving  *)
(* /api/simulate requests one after another on the global chain. pc, req   *)
(* and local of handler "h1" hold the driver's position: the program or    *)
(* request running, the add_block calls it has completed, and the length   *)
(* of the chain when it started. Each payload is cut down to its           *)
(* identifying key.                                                        *)

\* Event(...) constructed without a timestamp
Event(event_type, actor_role, actor_id, key, value) ==
    [event_type |-> event_type, actor_role |-> actor_role, actor_id |-> actor_id,
     payload |-> << <<key, Str(value)>> >>, timestamp_utc |-> NoTimestamp]

MainVendors == [v \in {"VENDOR_ACME", "VENDOR_BUDGET", "VENDOR_FAST"} |-> VendorsById[v]]

MainBid(bid_id, vendor_id, price_total, delivery_days) ==
    [bid_id |-> bid_id, solicitation_id |-> TheSolicitation.solicitation_id,
     vendor_id |-> vendor_id, price_total |-> price_total,
     delivery_days |-> delivery_days, technical_compliance |-> TRUE]

MainBids ==
    << MainBid("BID-001", "VENDOR_ACME", 120000, 14),
       MainBid("BID-002", "VENDOR_BUDGET", 80000, 10),
       MainBid("BID-003", "VENDOR_FAST", 70000, 3) >>

MainDeliverables == << "DELIV-001", "DELIV-002" >>

DemoSolicitation == [solicitation_id |-> "SOL-DEMO-001", naics |-> "541519"]

DemoVendors ==
    [v \in {"VENDOR_ALPHA", "VENDOR_BETA"} |->
        [vendor_id |-> v, sam_registered |-> TRUE, insurance_valid |-> TRUE,
         naics_codes |-> IF v = "VENDOR_ALPHA" THEN << "541519", "541511" >> ELSE << "541519" >>,
         past_performance_score |-> IF v = "VENDOR_ALPHA" THEN 85 ELSE 72]]

DemoBids ==
    << [bid_id |-> "BID-ALPHA-001", solicitation_id |-> "SOL-DEMO-001",
        vendor_id |-> "VENDOR_ALPHA", price_total |-> 150000, delivery_days |-> 30,
        technical_compliance |-> TRUE],
       [bid_id |-> "BID-BETA-001", solicitation_id |-> "SOL-DEMO-001",
        vendor_id |-> "VENDOR_BETA", price_total |-> 130000, delivery_days |-> 45,
        technical_compliance |-> TRUE] >>

\* main with steps 3 and 4 exchanged
MainScriptEvaluatingFirst(winning_vendor_id) ==
    LET sid == TheSolicitation.solicitation_id
    IN  << << Event("SOLICITATION_PUBLISHED", "CONTRACTING_OFFICER", "CO_001",
                    "solicitation_id", sid) >>,
           [i \in 1..Len(MainBids) |->
               Event("BID_SUBMITTED", "VENDOR", MainBids[i].vendor_id,
                     "bid_id", MainBids[i].bid_id)],
           [i \in 1..Len(MainBids) |->
               Event("EVALUATION_RECORDED", "AI_RISK_ENGINE", "RULES_V1",
                     "bid_id", MainBids[i].bid_id)],
           << Event("BIDDING_CLOSED", "CONTRACTING_OFFICER", "CO_001",
                    "solicitation_id", sid) >>,
           << Event("AWARD_ISSUED", "CONTRACTING_OFFICER", "CO_001",
                    "winning_vendor_id", winning_vendor_id) >>,
           [i \in 1..Len(MainDeliverables) |->
               Event("DELIVERABLE_SUBMITTED", "VENDOR", winning_vendor_id,
                     "deliverable_id", MainDeliverables[i])],
           [i \in 1..Len(MainDeliverables) |->
               Event("DELIVERABLE_ACCEPTED", "AGENCY_QA", "QA_001",
                     "deliverable_id", MainDeliverables[i])],
           << Event("CLOSEOUT_CONFIRMED", "CONTRACTING_OFFICER", "CO_001",
                    "solicitation_id", sid) >> >>

\* main: the batches of its add_block calls, in order, given the winner
MainScript(winning_vendor_id) ==
    LET sid == TheSolicitation.solicitation_id
    IN  << << Event("SOLICITATION_PUBLISHED", "CONTRACTING_OFFICER", "CO_001",
                    "solicitation_id", sid) >>,
           [i \in 1..Len(MainBids) |->
               Event("BID_SUBMITTED", "VENDOR", MainBids[i].vendor_id,
                     "bid_id", MainBids[i].bid_id)],
           << Event("BIDDING_CLOSED", "CONTRACTING_OFFICER", "CO_001",
                    "solicitation_id", sid) >>,
           [i \in 1..Len(MainBids) |->
               Event("EVALUATION_RECORDED", "AI_RISK_ENGINE", "RULES_V1",
                     "bid_id", MainBids[i].bid_id)],
           << Event("AWARD_ISSUED", "CONTRACTING_OFFICER", "CO_001",
                    "winning_vendor_id", winning_vendor_id) >>,
           [i \in 1..Len(MainDeliverables) |->
               Event("DELIVERABLE_SUBMITTED", "VENDOR", winning_vendor_id,
                     "deliverable_id", MainDeliverables[i])],
           [i \in 1..Len(MainDeliverables) |->
               Event("DELIVERABLE_ACCEPTED", "AGENCY_QA", "QA_001",
                     "deliverable_id", MainDeliverables[i])],
           << Event("CLOSEOUT_CONFIRMED", "CONTRACTING_OFFICER", "CO_001",
                    "solicitation_id", sid) >> >>

\* simulate_procurement: the batches of its add_block calls, given the winner
DemoScript(winning_vendor_id) ==
    [k \in 1..Len(SimulateScript) |->
        IF k = Len(SimulateScript)
        THEN << Event("AWARD_ISSUED", "CONTRACTING_OFFICER", "CO_001",
                      "winning_vendor_id", winning_vendor_id) >>
        ELSE SimulateScript[k]]

\* the position of the add_block call that follows choose_winner
AwardStep == 5

\* the state at the start of either program
InitDriver ==
    /\ clock \in 1..MaxClock
    /\ chain = create_genesis_block(<< >>, clock)
    /\ call = [op |-> "init"]
    /\ ret = "None"
    /\ tampers = << >>
    /\ \E program \in {"main", "idle"} :
          pc = [h \in Handlers |-> IF h = "h1" THEN program ELSE "idle"]
    /\ req = [h \in Handlers |-> 0]
    /\ local = [h \in Handlers |-> [NoFrame EXCEPT !.prev = 1]]
    /\ made = << >>

\* one add_block call of a driver, or the exception of choose_winner before
\* the award
DriverStep(winner, script) ==
    IF req["h1"] + 1 = AwardStep /\ winner.raised
    THEN /\ pc' = [pc EXCEPT !["h1"] = "error"]
         /\ call' = [op |-> "choose_winner"]
         /\ ret' = winner.error
         /\ UNCHANGED <<chain, req>>
    ELSE LET events == script[req["h1"] + 1]
             res == add_block(chain, events, clock)
         IN  /\ chain' = res.chain
             /\ ret' = res.ret
             /\ call' = [op |-> "add_block", events |-> events]
             /\ req' = [req EXCEPT !["h1"] = @ + 1]
             /\ UNCHANGED pc

MainStep ==
    /\ pc["h1"] = "main"
    /\ LET winner == choose_winner(TheSolicitation, MainBids, MainVendors)
           script == MainScript(IF winner.raised THEN "" ELSE winner.bid.vendor_id)
       IN  /\ req["h1"] < Len(script)
           /\ DriverStep(winner, script)
    /\ UNCHANGED <<clock, tampers, local, made>>

\* chain.display(); print(chain.is_valid())
MainExit ==
    /\ pc["h1"] = "main"
    /\ req["h1"] = Len(MainScript(""))
    /\ ret' = is_valid_outcome(chain)
    /\ call' = [op |-> "main"]
    /\ pc' = [pc EXCEPT !["h1"] = "exit"]
    /\ UNCHANGED <<chain, clock, tampers, req, local, made>>

SimulateStart ==
    /\ pc["h1"] = "idle"
    /\ Len(chain) - 1 < MaxRequests * Len(SimulateScript)
    /\ pc' = [pc EXCEPT !["h1"] = "simulate"]
    /\ req' = [req EXCEPT !["h1"] = 0]
    /\ local' = [local EXCEPT !["h1"].prev = Len(chain)]
    /\ call' = [op |-> "request"]
    /\ ret' = "None"
    /\ UNCHANGED <<chain, clock, tampers, made>>

SimulateStep ==
    /\ pc["h1"] = "simulate"
    /\ LET winner == choose_winner(DemoSolicitation, DemoBids, DemoVendors)
           script == DemoScript(IF winner.raised THEN "" ELSE winner.bid.vendor_id)
       IN  /\ req["h1"] < Len(script)
           /\ DriverStep(winner, script)
    /\ UNCHANGED <<clock, tampers, local, made>>

\* return jsonify({"status": "success", "blocks_created": 5})
SimulateReturn ==
    /\ pc["h1"] = "simulate"
    /\ req["h1"] = Len(SimulateScript)
    /\ ret' = [status |-> "success", blocks_created |-> 5]
    /\ call' = [op |-> "simulate"]
    /\ pc' = [pc EXCEPT !["h1"] = "idle"]
    /\ UNCHANGED <<chain, clock, tampers, req, local, made>>

NextDriver ==
    MainStep \/ MainExit \/ SimulateStart \/ SimulateStep \/ SimulateReturn \/ Tick

SpecDriver == InitDriver /\ [][NextDriver]_vars

----------------------------------------------------------------------------
(* One appender and the readers: handler "h1" constructs the ledger and    *)
(* then runs add_block statement by statement, while is_valid and the      *)
(* dashboard's /api/blockchain export run between its statements. Blocks   *)
(* in the list are never written again, so a reader that runs across       *)
(* several of the appender's statements sees, block by block, what a       *)
(* reader running between two of them sees.                                *)

\* line 75: self.chain = []
InitPublish ==
    /\ clock \in 1..MaxClock
    /\ chain = << >>
    /\ call = [op |-> "init"]
    /\ ret = "None"
    /\ tampers = << >>
    /\ pc = [h \in Handlers |-> IF h = "h1" THEN "construct" ELSE "idle"]
    /\ req = [h \in Handlers |-> 0]
    /\ local = [h \in Handlers |-> NoFrame]
    /\ made = << >>

\* line 76: self._create_genesis_block()
Construct ==
    /\ pc["h1"] = "construct"
    /\ chain' = create_genesis_block(chain, clock)
    /\ pc' = [pc EXCEPT !["h1"] = "idle"]
    /\ call' = [op |-> "Blockchain"]
    /\ ret' = "None"
    /\ UNCHANGED <<clock, tampers, req, local, made>>

\* get_blockchain: the blocks as exported, the count and the validity flag
get_blockchain(c) ==
    [blocks |-> [k \in 1..Len(c) |->
                    [index |-> c[k].index, timestamp |-> c[k].timestamp_utc,
                     previous_hash |-> c[k].previous_hash, hash |-> c[k].hash,
                     events |-> c[k].events, event_count |-> Len(c[k].events)]],
     total_blocks |-> Len(c),
     is_valid |-> is_valid_outcome(c)]

GetBlockchain ==
    /\ chain # << >>
    /\ ret' = get_blockchain(chain)
    /\ call' = [op |-> "get_blockchain"]
    /\ UNCHANGED <<chain, clock, tampers, pc, req, local, made>>

NextPublish ==
    \/ Construct
    \/ ReadTip("h1")
    \/ BuildBlock("h1")
    \/ AppendBlock("h1")
    \/ IsValid
    \/ GetBlockchain
    \/ Tick

SpecPublish == InitPublish /\ [][NextPublish]_vars

----------------------------------------------------------------------------
(* The caller's Events after add_block: the caller keeps each Event it     *)
(* built and may later write into its payload mapping, or into a mapping   *)
(* nested in it. Each entry of made keeps the Event, the places            *)
(* <<block index, event position>> where a conversion of it is stored,     *)
(* and the paths of its payload whose object a stored conversion shares    *)
(* with it: << >> for the payload mapping itself, <<key>> for the mapping  *)
(* under key. A write into a shared object shows in every holder.          *)

FlatPayload == << <<"bid_id", Str("BID-A")>> >>

NestedPayload ==
    << <<"bid_id", Str("BID-A")>>, <<"message", Map(<< <<"title", Str("Helpdesk")>> >>)>> >>

\* a copy of the fields that keeps the Event's own payload mapping
asdict_shared_shallow(e) == { << >> }

\* dataclasses.asdict, line 45: the paths of e.payload whose object the
\* returned dict shares with e; asdict copies dicts and lists recursively
asdict_shared(e) == { }

\* the Events the caller has built
HeldEvents ==
    { [k \in 1..Len(ps) |->
          [event |-> [event_type |-> "BID_SUBMITTED", actor_role |-> "VENDOR",
                      actor_id |-> "VENDOR_ALPHA", payload |-> ps[k],
                      timestamp_utc |-> NoTimestamp],
           stored |-> {}, shared |-> {}]] :
        ps \in { << FlatPayload >>, << NestedPayload >>, << FlatPayload, NestedPayload >> } }

InitAlias ==
    /\ clock \in 1..MaxClock
    /\ chain = create_genesis_block(<< >>, clock)
    /\ call = [op |-> "Event"]
    /\ ret = "None"
    /\ tampers = << >>
    /\ pc = [h \in Handlers |-> "idle"]
    /\ req = [h \in Handlers |-> 0]
    /\ local = [h \in Handlers |-> NoFrame]
    /\ made \in HeldEvents

\* chain.add_block(events) on the Events the caller holds
AddEvents ==
    /\ Len(chain) < MaxChain
    /\ made # << >>
    /\ LET events == [k \in 1..Len(made) |-> made[k].event]
           res == add_block(chain, events, clock)
       IN  /\ chain' = res.chain
           /\ ret' = res.ret
           /\ call' = [op |-> "add_block", events |-> events]
           /\ made' = [k \in 1..Len(made) |->
                         [made[k] EXCEPT
                            !.stored = @ \cup {<<Len(chain), k>>},
                            !.shared = @ \cup asdict_shared(made[k].event)]]
    /\ UNCHANGED <<clock, tampers, pc, req, local>>

\* the payload after a write: at path << >> into the payload mapping, at
\* path <<"message">> into the mapping nested under that key
Written(p, path) ==
    IF path = << >> THEN [p EXCEPT ![1][2] = Str("CHANGED")]
    ELSE [p EXCEPT ![PayloadGet(p, path[1])][2] = Map(<< <<"title", Str("CHANGED")>> >>)]

WritePaths(p) ==
    { << >> } \cup { <<p[i][1]>> : i \in { n \in 1..Len(p) : p[n][2].kind = "map" } }

\* the stored payload at a place, after the caller's write at path gave its
\* own payload the value written: the same write, where the object written
\* is shared
StoredAfterWrite(p, shared, path, written) ==
    IF << >> \in shared THEN written
    ELSE IF path # << >> /\ path \in shared
    THEN [p EXCEPT ![PayloadGet(p, path[1])][2] = written[PayloadGet(written, path[1])][2]]
    ELSE p

\* event.payload[...] = ... by the caller, after the Event was built
MutatePayload ==
    /\ \E k \in 1..Len(made) : \E path \in WritePaths(made[k].event.payload) :
         LET written == Written(made[k].event.payload, path)
         IN  /\ written # made[k].event.payload
             /\ made' = [made EXCEPT ![k].event.payload = written]
             /\ chain' = [i \in 1..Len(chain) |->
                            [chain[i] EXCEPT !.events =
                               [j \in 1..Len(chain[i].events) |->
                                  IF <<i - 1, j>> \in made[k].stored
                                  THEN [chain[i].events[j] EXCEPT !.payload =
                                          StoredAfterWrite(@, made[k].shared, path, written)]
                                  ELSE chain[i].events[j]]]]
             /\ call' = [op |-> "mutate", k |-> k, path |-> path]
             /\ ret' = "None"
    /\ UNCHANGED <<clock, tampers, pc, req, local>>

NextAlias == AddEvents \/ MutatePayload \/ IsValid \/ Tick

SpecAlias == InitAlias /\ [][NextAlias]_vars

----------------------------------------------------------------------------
(* Tampering that covers its tracks: one field of one stored block, other  *)
(* than hash, is overwritten and the block's hash is then set to the       *)
(* recomputed value. The entry of tampers also keeps the length of the     *)
(* chain at that moment.                                                   *)

\* block.<field> = v; block.hash = block.compute_hash()
TamperRehash ==
    /\ tampers = << >>
    /\ \E k \in 1..Len(chain) : \E field \in BlockFields \ {"hash"} :
         \E v \in TamperValues(chain[k], field) :
            /\ chain' = [Overwrite(chain, k, field, v) EXCEPT ![k] = Sealed(@)]
            /\ tampers' = Append(tampers, [i |-> k - 1, field |-> field, len |-> Len(chain)])
            /\ call' = [op |-> "tamper"]
            /\ ret' = "None"
    /\ UNCHANGED <<clock, pc, req, local, made>>

NextRehash == AddBlock \/ IsValid \/ Tick \/ TamperRehash

SpecRehash == Init /\ [][NextRehash]_vars

----------------------------------------------------------------------------
(* compute_hash as a function: it is applied to two Block objects built    *)
(* directly (Block is a public dataclass), and the digests are compared.   *)

PayloadAB == << <<"bid_id", Str("BID-001")>>, <<"solicitation_id", Str("SOL-1")>> >>

PayloadBA == << <<"solicitation_id", Str("SOL-1")>>, <<"bid_id", Str("BID-001")>> >>

HashPayloads ==
    { PayloadAB, PayloadBA,
      << <<"bid_id", Str("BID-002")>>, <<"solicitation_id", Str("SOL-1")>> >>,
      << <<"title", Str("Helpdesk")>>, <<"message", Map(PayloadAB)>> >>,
      << <<"message", Map(PayloadBA)>>, <<"title", Str("Helpdesk")>> >> }

HashEvent(p) ==
    [event_type |-> "BID_SUBMITTED", actor_role |-> "VENDOR", actor_id |-> "VENDOR_ACME",
     payload |-> p, timestamp_utc |-> 1]

HashBlocks ==
    { [index |-> i, timestamp_utc |-> t, previous_hash |-> ph, events |-> ev,
       nonce |-> n, hash |-> h] :
        i \in {1}, t \in 1..MaxClock, ph \in {ZeroHash, sha256_hex(<<"{", "}">>)},
        ev \in { << HashEvent(p) >> : p \in HashPayloads },
        n \in {0, 1}, h \in {<< >>, ZeroHash} }

\* the two blocks are built first, then hashed
InitHash ==
    /\ clock = 1
    /\ chain = create_genesis_block(<< >>, clock)
    /\ \E a \in HashBlocks : \E b \in HashBlocks :
          call = [op |-> "Block", a |-> a, b |-> b]
    /\ ret = "None"
    /\ tampers = << >>
    /\ pc = [h \in Handlers |-> "idle"]
    /\ req = [h \in Handlers |-> 0]
    /\ local = [h \in Handlers |-> NoFrame]
    /\ made = << >>

ComputeHash ==
    /\ call.op = "Block"
    /\ call' = [op |-> "compute_hash", a |-> call.a, b |-> call.b]
    /\ ret' = [a |-> compute_hash(call.a), b |-> compute_hash(call.b)]
    /\ UNCHANGED <<chain, clock, tampers, pc, req, local, made>>

NextHash == ComputeHash

SpecHash == InitHash /\ [][NextHash]_vars

----------------------------------------------------------------------------
(* Properties of the ledger *)

Tip(c) == c[Len(c)]

\* the two checks of is_valid at Python position i
LinkHolds(c, i) == c[i + 1].previous_hash = c[i].hash

HashHolds(c, i) == c[i + 1].hash = compute_hash(c[i + 1])

FailingPositions(c) == { i \in 1..(Len(c) - 1) : ~(LinkHolds(c, i) /\ HashHolds(c, i)) }

Least(S) == CHOOSE i \in S : \A j \in S : i <= j

IsPrefix(a, b) == Len(a) <= Len(b) /\ SubSeq(b, 1, Len(a)) = a

\* C1: add_block with a non-empty batch makes the chain one block longer,
\* returns the block that is now last, and that block's previous_hash is the
\* hash the tip stored before the call.
C1_AddBlockAppendsOne ==
    [][ (call'.op = "add_block" /\ call'.events # << >>)
          => /\ Len(chain') = Len(chain) + 1
             /\ ret' = Tip(chain')
             /\ ret'.previous_hash = Tip(chain).hash ]_vars

C1_Witness ==
    /\ call.op = "add_block"
    /\ call.events = BidEvents
    /\ Len(chain) = 3
    /\ ret = Tip(chain)
    /\ ret.previous_hash = chain[2].hash

\* C2: with no tampering, the chain is valid after construction and after
\* every add_block, and every is_valid call returns True.
C2_ValidWithoutTampering ==
    /\ is_valid(chain)
    /\ call.op = "is_valid" => ret = TRUE

C2_Witness ==
    /\ call.op = "is_valid"
    /\ ret = TRUE
    /\ Len(chain) = 3
    /\ \A k \in 2..3 : chain[k].events # << >>

\* C3: after a single overwrite of a field other than hash, of any stored
\* block from position 0 to the tip, is_valid returns False.
C3_AnyTamperDetected ==
    (Len(tampers) = 1 /\ tampers[1].field # "hash")
        => /\ ~is_valid(chain)
           /\ call.op = "is_valid" => ret = FALSE

\* C4: add_block rejects an empty batch and leaves the chain as it was, so
\* no block of the chain has an empty events list.
C4_EmptyBatchRejected ==
    /\ \A k \in 1..Len(chain) : chain[k].events # << >>
    /\ ~(call.op = "add_block" /\ call.events = << >>)

\* C6: the chain is never empty and the block at Python position i has
\* index i.
C6_IndexIsPosition ==
    /\ Len(chain) >= 1
    /\ \A k \in 1..Len(chain) : chain[k].index = k - 1

C6_Witness ==
    /\ Len(chain) = 3
    /\ chain[3].index = 2
    /\ chain[2].index = 1

\* C7: every step of add_block, is_valid and display leaves the chain it
\* found as a prefix of the chain it leaves, every block of it unchanged.
C7_AppendOnly == [][IsPrefix(chain, chain')]_vars

C7_Witness ==
    /\ call.op = "display"
    /\ Len(chain) = 3
    /\ chain[2].events = << to_dict(SolicitationPublished, chain[2].timestamp_utc) >>

\* C8: is_valid returns True exactly when every position from 1 to the tip
\* passes the link check and the recomputation check, and when it returns
\* False it does so at the first position that fails either.
C8_IsValidMeaning ==
    LET bad == FailingPositions(chain)
        run == is_valid_loop(chain, 1)
    IN  /\ run.result = (bad = {})
        /\ bad # {} => run.i = Least(bad)
        /\ call.op = "is_valid" => ret = (bad = {})

C8_Witness ==
    /\ call.op = "is_valid"
    /\ ret = FALSE
    /\ FailingPositions(chain) = {1, 2}
    /\ is_valid_loop(chain, 1).i = 1

\* C9: an is_valid call changes no block, and its result is the result of
\* the call before it and of a further call on the state it leaves.
C9_IsValidReadOnly ==
    [][ call'.op = "is_valid"
          => /\ chain' = chain
             /\ ret' = is_valid(chain')
             /\ call.op = "is_valid" => ret' = ret ]_vars

C9_Witness ==
    /\ call.op = "is_valid"
    /\ ret = FALSE
    /\ Len(tampers) = 1
    /\ tampers[1].field = "events"
    /\ ~HashHolds(chain, 1)

\* C10: construction leaves one block, the genesis block: index 0, the
\* sentinel of 64 zeros as previous_hash, one GENESIS event, its hash the
\* recomputed one; and at all times the block at position 0 is the only one
\* whose previous_hash is the sentinel.
C10_Genesis ==
    /\ call.op = "init" => Len(chain) = 1
    /\ chain[1].index = 0
    /\ chain[1].previous_hash = ZeroHash
    /\ Len(ZeroHash) = 64 /\ \A n \in 1..Len(ZeroHash) : ZeroHash[n] = "0"
    /\ Len(chain[1].events) = 1
    /\ chain[1].events[1].event_type = "GENESIS"
    /\ chain[1].hash = compute_hash(chain[1])
    /\ { k \in 1..Len(chain) : chain[k].previous_hash = ZeroHash } = {1}

C10_Witness ==
    /\ Len(chain) = 3
    /\ chain[1].previous_hash = ZeroHash
    /\ chain[2].previous_hash = chain[1].hash
    /\ chain[3].previous_hash # ZeroHash

\* C5: handlers appending concurrently never leave two blocks with the same
\* previous_hash or the same index, and every block's previous_hash is the
\* hash of the block before it.
C5_AppendsAtomic ==
    /\ \A j \in 1..Len(chain) : \A k \in 1..Len(chain) :
          j # k => /\ chain[j].previous_hash # chain[k].previous_hash
                   /\ chain[j].index # chain[k].index
    /\ \A k \in 2..Len(chain) : chain[k].previous_hash = chain[k - 1].hash

\* C12: an Event made without a timestamp never holds the unset
\* placeholder, the timestamp the ledger records for it is the clock value at
\* its construction, and every conversion of it gives the timestamp of the
\* first.
C12_NoPlaceholder ==
    \A k \in 1..Len(made) : made[k].event.timestamp_utc # NoTimestamp

C12_RecordedAtConstruction ==
    (call.op = "add_block" /\ made # << >>)
        => \A k \in 1..Len(ret.events) : ret.events[k].timestamp_utc = utc_now_iso(made[k].at)

C12_ConversionsAgree ==
    call.op = "to_dict" => ret.timestamp_utc = made[call.k].first[1].timestamp_utc

C12_StampedAtConstruction ==
    /\ C12_NoPlaceholder
    /\ C12_RecordedAtConstruction
    /\ C12_ConversionsAgree

\* a batch one of whose payloads json.dumps cannot encode
Unencodable(events) == \E j \in 1..Len(events) : json_raises(events[j].payload)

\* C13: add_block on a batch holding a payload that cannot be encoded fails
\* with the encoder's error and leaves the chain, every stored block
\* included, as it was.
C13_UnencodableAborts ==
    [][ (call'.op = "add_block" /\ Unencodable(call'.events))
            => (ret' = TypeError /\ chain' = chain) ]_vars

C13_Witness ==
    /\ call.op = "add_block"
    /\ Unencodable(call.events)
    /\ Len(call.events) = 2
    /\ Len(chain) >= 2
    /\ ret = TypeError

\* C14: is_valid returns a boolean and never raises, whatever has been
\* written over the stored blocks.
C14_IsValidNeverRaises ==
    call.op = "is_valid" => ~is_valid_loop(chain, 1).raised

\* C16: the risk_score evaluate_bid_rules returns lies in 0..100, whatever
\* penalties apply.
C16_RiskInRange ==
    call.op = "evaluate_bid_rules" => ret.risk_score \in 0..100

C16_Witness ==
    /\ call.op = "evaluate_bid_rules"
    /\ risk_sum(rule_hits(call.solicitation, call.bid, call.vendor, call.peer_prices)) = 280
    /\ ret.risk_score = 100

\* the hard gates: solicitation_id, SAM registration, insurance, technical
\* compliance
HardGateFails(solicitation, bid, vendor) ==
    \/ bid.solicitation_id # solicitation.solicitation_id
    \/ ~vendor.sam_registered
    \/ ~vendor.insurance_valid
    \/ ~bid.technical_compliance

\* the positions of the bids whose evaluation passes the gates
CompliantPositions(solicitation, bids, vendors_by_id) ==
    { i \in 1..Len(bids) :
        evaluate_bid_rules(solicitation, bids[i], vendors_by_id[bids[i].vendor_id],
                           [k \in 1..Len(bids) |-> bids[k].price_total]).compliance_pass }

\* C17: choose_winner returns a compliant bid of least price_total among
\* the compliant bids, with that bid's own evaluation, and raises ValueError
\* when no bid is compliant.
C17_WinnerIsCheapestCompliant ==
    call.op = "choose_winner" =>
        LET ok == CompliantPositions(call.solicitation, call.bids, call.vendors_by_id)
        IN  IF ok = {} THEN ret.raised /\ ret.error = ValueError
            ELSE /\ ~ret.raised
                 /\ \E i \in ok :
                      /\ ret.bid = call.bids[i]
                      /\ ret.res = evaluate_bid_rules(
                                      call.solicitation, call.bids[i],
                                      call.vendors_by_id[call.bids[i].vendor_id],
                                      [k \in 1..Len(call.bids) |-> call.bids[k].price_total])
                      /\ \A k \in ok : call.bids[i].price_total <= call.bids[k].price_total

C17_Witness ==
    /\ call.op = "choose_winner"
    /\ Len(call.bids) = 2
    /\ CompliantPositions(call.solicitation, call.bids, call.vendors_by_id) = {1}
    /\ call.bids[2].price_total < call.bids[1].price_total
    /\ ~ret.raised
    /\ ret.bid = call.bids[1]

\* C20: compliance_pass is False exactly when a hard gate fails; a NAICS
\* mismatch, past performance, delivery time or price signal adds to the
\* risk score and leaves compliance_pass True.
C20_ComplianceIffGates ==
    call.op = "evaluate_bid_rules" =>
        /\ ret.compliance_pass = ~HardGateFails(call.solicitation, call.bid, call.vendor)
        /\ (~HardGateFails(call.solicitation, call.bid, call.vendor) /\ ret.reasons # << >>)
               => (ret.compliance_pass /\ ret.risk_score > 0)

C20_Witness ==
    /\ call.op = "evaluate_bid_rules"
    /\ ~HardGateFails(call.solicitation, call.bid, call.vendor)
    /\ Len(ret.reasons) = 4
    /\ ret.compliance_pass
    /\ ret.risk_score = 80

\* C18: the block add_block appends holds as many events as the batch, and
\* its j-th entry has the event_type, actor_role, actor_id and payload of the
\* j-th Event of the batch.
C18_BatchPreserved ==
    call.op = "add_block" =>
        /\ chain[Len(chain)] = ret
        /\ Len(ret.events) = Len(call.events)
        /\ \A j \in 1..Len(call.events) :
              /\ ret.events[j].event_type = call.events[j].event_type
              /\ ret.events[j].actor_role = call.events[j].actor_role
              /\ ret.events[j].actor_id = call.events[j].actor_id
              /\ ret.events[j].payload = call.events[j].payload

C18_Witness ==
    /\ call.op = "add_block"
    /\ Len(call.events) = 2
    /\ call.events[1] # call.events[2]
    /\ Len(chain) = 3
    /\ ret.events[1].actor_id = call.events[1].actor_id
    /\ ret.events[2].payload = call.events[2].payload

\* the stages of the procurement lifecycle, in order
Lifecycle ==
    << "SOLICITATION_PUBLISHED", "BID_SUBMITTED", "BIDDING_CLOSED", "EVALUATION_RECORDED",
       "AWARD_ISSUED", "DELIVERABLE_SUBMITTED", "DELIVERABLE_ACCEPTED", "CLOSEOUT_CONFIRMED" >>

\* the blocks the running (or last) run of the driver has appended
RunBlocks == SubSeq(chain, local["h1"].prev + 1, Len(chain))

\* C19: the k-th block a run of a driver appends holds events of the k-th
\* lifecycle stage only, so the run's blocks are in lifecycle order; a
\* /api/simulate request that returns has added the 5 blocks it reports,
\* and app.main ends with a chain of 9 blocks.
C19_LifecycleOrder ==
    /\ pc["h1"] # "error"
    /\ Len(RunBlocks) = req["h1"]
    /\ \A k \in 1..Len(RunBlocks) :
          /\ RunBlocks[k].events # << >>
          /\ \A j \in 1..Len(RunBlocks[k].events) :
                RunBlocks[k].events[j].event_type = Lifecycle[k]
    /\ call.op = "simulate"
          => (ret.status = "success" /\ ret.blocks_created = 5 /\ Len(RunBlocks) = 5)
    /\ call.op = "main" => Len(chain) = 9

C19_Witness ==
    /\ call.op = "main"
    /\ Len(chain) = 9
    /\ chain[6].events[1].payload = << <<"winning_vendor_id", Str("VENDOR_FAST")>> >>
    /\ chain[9].events[1].event_type = "CLOSEOUT_CONFIRMED"

\* C21: with one appender and no tampering, every block in the chain has
\* its hash assigned and equal to its recomputed hash at every step of
\* construction and of add_block, so is_valid returns True whenever it runs
\* and the export never shows a block with an empty or stale hash.
C21_PublishedComplete ==
    /\ \A k \in 1..Len(chain) :
          chain[k].hash # << >> /\ chain[k].hash = compute_hash(chain[k])
    /\ call.op = "is_valid" => ret = TRUE
    /\ call.op = "get_blockchain" =>
          /\ ret.is_valid = TRUE
          /\ \A k \in 1..Len(ret.blocks) :
                /\ ret.blocks[k].hash # << >>
                /\ ret.blocks[k].hash = chain[k].hash

C21_Witness ==
    /\ pc["h1"] = "append"
    /\ Len(chain) = 2
    /\ call.op = "get_blockchain"
    /\ ret.total_blocks = 2
    /\ ret.is_valid = TRUE

\* C22: a write into the payload of an Event, or into a mapping nested in
\* it, after add_block has stored the Event, changes no stored block, hash
\* included, and is_valid still returns True.
C22_StoredIsolated ==
    [][ call'.op = "mutate" => (chain' = chain /\ is_valid(chain')) ]_vars

C22_Witness ==
    /\ call.op = "mutate"
    /\ call.path = <<"message">>
    /\ \E pl \in made[call.k].stored :
          /\ chain[pl[1] + 1].events[pl[2]].payload = NestedPayload
          /\ made[call.k].event.payload # NestedPayload
    /\ is_valid(chain)

\* the re-hashed block had a successor when it was changed
RehashedInside == tampers # << >> /\ tampers[1].i < tampers[1].len - 1

\* the re-hashed block was the tip when it was changed
RehashedTip == tampers # << >> /\ tampers[1].i = tampers[1].len - 1

\* C23 as stated: a changed and re-hashed block that has a successor makes
\* is_valid return False, the successor's previous_hash no longer matching;
\* the same edit of the tip block leaves is_valid returning True.
C23_RehashHidesOnlyAtTip ==
    /\ RehashedInside => (~is_valid(chain) /\ ~LinkHolds(chain, tampers[1].i + 1))
    /\ RehashedTip => is_valid(chain)

\* C23 as amended: a changed and re-hashed block that has a successor makes
\* is_valid return False, the successor's previous_hash no longer matching;
\* the same edit of the tip block leaves is_valid returning True when it
\* changes a field other than the tip's previous_hash.
C23_RehashHidesAtTipButLink ==
    /\ RehashedInside => (~is_valid(chain) /\ ~LinkHolds(chain, tampers[1].i + 1))
    /\ (RehashedTip /\ tampers[1].field # "previous_hash") => is_valid(chain)

C23_Witness ==
    /\ RehashedInside
    /\ tampers[1].i = 1
    /\ chain[2].hash = compute_hash(chain[2])
    /\ call.op = "is_valid"
    /\ ret = FALSE

\* two mappings with the same keys and, key by key, the same values
RECURSIVE SameMapping(_, _)
SameMapping(p, q) ==
    /\ PayloadKeys(p) = PayloadKeys(q)
    /\ Len(p) = Len(q)
    /\ \A i \in 1..Len(p) :
          LET v == p[i][2]
              w == q[PayloadGet(q, p[i][1])][2]
          IN  /\ v.kind = w.kind
              /\ v.str = w.str
              /\ SameMapping(v.map, w.map)

\* two blocks alike but for the insertion order of keys in event payloads
SameButKeyOrder(a, b) ==
    /\ a.index = b.index /\ a.timestamp_utc = b.timestamp_utc
    /\ a.previous_hash = b.previous_hash /\ a.nonce = b.nonce /\ a.hash = b.hash
    /\ Len(a.events) = Len(b.events)
    /\ \A j \in 1..Len(a.events) :
          /\ a.events[j].event_type = b.events[j].event_type
          /\ a.events[j].actor_role = b.events[j].actor_role
          /\ a.events[j].actor_id = b.events[j].actor_id
          /\ a.events[j].timestamp_utc = b.events[j].timestamp_utc
          /\ SameMapping(a.events[j].payload, b.events[j].payload)

\* C11 as stated: two blocks that agree on index, timestamp_utc,
\* previous_hash and events have the same compute_hash result, whatever
\* their other fields (nonce, hash) hold.
C11_FourFieldsDecide ==
    call.op = "compute_hash"
        => ( ( /\ call.a.index = call.b.index
               /\ call.a.timestamp_utc = call.b.timestamp_utc
               /\ call.a.previous_hash = call.b.previous_hash
               /\ call.a.events = call.b.events )
             => ret.a = ret.b )

\* C11 as amended: two blocks that agree on index, timestamp_utc,
\* previous_hash, events and nonce have the same compute_hash result,
\* whatever their hash field holds.
C11_FiveFieldsDecide ==
    call.op = "compute_hash"
        => ( ( /\ call.a.index = call.b.index
               /\ call.a.timestamp_utc = call.b.timestamp_utc
               /\ call.a.previous_hash = call.b.previous_hash
               /\ call.a.events = call.b.events
               /\ call.a.nonce = call.b.nonce )
             => ret.a = ret.b )

C11_Witness ==
    /\ call.op = "compute_hash"
    /\ call.a.hash # call.b.hash
    /\ call.a.nonce = 1 /\ call.b.nonce = 1
    /\ call.a.events = call.b.events
    /\ call.a.timestamp_utc = call.b.timestamp_utc
    /\ call.a.previous_hash = call.b.previous_hash
    /\ ret.a = ret.b

\* C15: two blocks alike but for the insertion order of the keys of an
\* event payload, or of a mapping nested in it, have the same compute_hash
\* result.
C15_KeyOrderIrrelevant ==
    (call.op = "compute_hash" /\ SameButKeyOrder(call.a, call.b)) => ret.a = ret.b

C15_Witness ==
    /\ call.op = "compute_hash"
    /\ SameButKeyOrder(call.a, call.b)
    /\ call.a.events[1].payload[2][2].kind = "map"
    /\ call.a.events[1].payload # call.b.events[1].payload
    /\ ret.a = ret.b

====
